---- MODULE Spec2Model ----
(***************************************************************************)
(* Model of the Tron wallet: the HD key derivation of signer/utils.js, the *)
(* account class of wallet-account-tron.js and the manager of              *)
(* wallet-manager-tron.js.                                                 *)
(*                                                                         *)
(* Scaling.  TLC has 32-bit integers and cannot enumerate 256-bit keys, so *)
(* a buffer element ("byte") takes ByteBase values instead of 256 and a    *)
(* key has KeyLen elements instead of 32.  Every size of the source is     *)
(* derived from these two: the HMAC output has 2*KeyLen elements (64), the *)
(* compressed public key 1+KeyLen (33), the derivation input 1+KeyLen+4    *)
(* (37), an index 4 elements.  The arithmetic is written element by        *)
(* element, with the code's carries and borrows.                           *)
(***************************************************************************)
EXTENDS Integers, Sequences, FiniteSets, TLC

ByteBase == 16
KeyLen == 2
MaxSeedByte == 15

KeyMod == ByteBase ^ KeyLen
HashMod == KeyMod * KeyMod
IndexMod == ByteBase ^ 4
HmacLen == 2 * KeyLen
PubLen == 1 + KeyLen
DataLen == 1 + KeyLen + 4

\* secp256k1.CURVE.n: the group order, a little below the largest key value
CurveOrder == KeyMod - 5

\* the field prime p of the curve, scaled: n < p < ByteBase^KeyLen
FieldPrime == KeyMod - 3

\* the hex digits of a KeyLen-byte number, 64 for 32 bytes
HexLen == KeyLen

HARDENED_OFFSET == IndexMod \div 2

MASTER_SECRET == <<66, 105, 116, 99, 111, 105, 110, 32, 115, 101, 101, 100>>

NULL == "null"

MaxAccounts == 2

(***************************************************************************)
(* Buffers: sequences of elements, 1-based; offsets are the code's 0-based *)
(* ones.                                                                   *)
(***************************************************************************)
Zeros(n) == [i \in 1..n |-> 0]

Filled(n, v) == [i \in 1..n |-> v]

\* TypedArray.prototype.set(source, offset)
SetAt(target, source, offset) ==
  [i \in 1..Len(target) |->
     IF i > offset /\ i <= offset + Len(source) THEN source[i - offset] ELSE target[i]]

\* TypedArray.prototype.subarray(begin, end) read as a value
Subarray(buffer, begin, end) == SubSeq(buffer, begin + 1, end)

RECURSIVE BytesToInt(_)
BytesToInt(bytes) ==
  IF bytes = <<>> THEN 0
  ELSE BytesToInt(SubSeq(bytes, 1, Len(bytes) - 1)) * ByteBase + bytes[Len(bytes)]

IntToBytes(value, n) == [i \in 1..n |-> (value \div (ByteBase ^ (n - i))) % ByteBase]

(***************************************************************************)
(* The curve and hash provider (@noble).  HMAC-SHA512 is a deterministic   *)
(* function of all of its key and all of its message; getPublicKey rejects *)
(* a key outside [1, n-1] and is injective on the valid keys.              *)
(***************************************************************************)
Scramble(h) == ((h % KeyMod) * KeyMod + (h \div KeyMod) + 13 * (h % KeyMod)) % HashMod

RECURSIVE Absorb(_, _)
Absorb(h, bytes) ==
  IF bytes = <<>> THEN h
  ELSE Absorb(Scramble((h * 31 + Head(bytes) + 1) % HashMod), Tail(bytes))

hmac(key, message) ==
  IntToBytes(Absorb(Absorb(Absorb(17, key), <<Len(key)>>), message), HmacLen)

ValidPrivateKey(bytes) == BytesToInt(bytes) >= 1 /\ BytesToInt(bytes) < CurveOrder

PointX(k) == (k * 5 + 3) % KeyMod

PointY(k) == (k * 11 + 7) % KeyMod

getPublicKey(privateKey, compressed) ==
  IF ~ValidPrivateKey(privateKey) THEN [threw |-> TRUE, bytes |-> <<>>]
  ELSE LET k == BytesToInt(privateKey)
           x == IntToBytes(PointX(k), KeyLen)
           y == IntToBytes(PointY(k), KeyLen)
       IN [threw |-> FALSE,
           bytes |-> IF compressed THEN <<2 + (PointY(k) % 2)>> \o x
                     ELSE <<4>> \o x \o y]

(***************************************************************************)
(* Strings are sequences of one-character strings.                         *)
(***************************************************************************)
DigitChars == <<"0", "1", "2", "3", "4", "5", "6", "7", "8", "9">>

IsDigit(c) == \E i \in 1..10 : DigitChars[i] = c

DigitValue(c) == (CHOOSE i \in 1..10 : DigitChars[i] = c) - 1

RECURSIVE DecimalValue(_)
DecimalValue(s) ==
  IF s = <<>> THEN 0
  ELSE DecimalValue(SubSeq(s, 1, Len(s) - 1)) * 10 + DigitValue(s[Len(s)])

\* String.prototype.split(separator)
RECURSIVE Split(_, _)
Split(s, sep) ==
  IF \E i \in 1..Len(s) : s[i] = sep
  THEN LET i == CHOOSE j \in 1..Len(s) : s[j] = sep /\ \A k \in 1..(j - 1) : s[k] # sep
       IN <<SubSeq(s, 1, i - 1)>> \o Split(SubSeq(s, i + 1, Len(s)), sep)
  ELSE <<s>>

\* A JavaScript number: an integer or NaN
NaN == [nan |-> TRUE, v |-> 0]

Num(v) == [nan |-> FALSE, v |-> v]

\* Number(string): the empty string is 0, a run of decimal digits its value,
\* and any string with another character (m, ') is NaN
Number(s) ==
  IF s = <<>> THEN Num(0)
  ELSE IF \A i \in 1..Len(s) : IsDigit(s[i]) THEN Num(DecimalValue(s))
  ELSE NaN

\* index >= HARDENED_OFFSET: a comparison with NaN is false
IsHardenedIndex(index) == ~index.nan /\ index.v >= HARDENED_OFFSET

(***************************************************************************)
(* signer/utils.js                                                         *)
(***************************************************************************)
\* value >> s and & 0xff first convert with ToInt32: NaN becomes 0 and a
\* number is taken modulo the index width
ToUint32(index) == IF index.nan THEN 0 ELSE index.v % IndexMod

encodeUInt32BE(value) ==
  <<(ToUint32(value) \div (ByteBase ^ 3)) % ByteBase,
    (ToUint32(value) \div (ByteBase ^ 2)) % ByteBase,
    (ToUint32(value) \div ByteBase) % ByteBase,
    ToUint32(value) % ByteBase>>

parsePath(path) ==
  LET parts == Split(path, "/")
  IN [i \in 1..Len(parts) |-> Number(parts[i])]

CurveOrderByte(i) == (CurveOrder \div (ByteBase ^ (KeyLen - 1 - i))) % ByteBase

RECURSIVE CompareFrom(_, _, _)
CompareFrom(buffer, startIndex, i) ==
  IF i = KeyLen THEN 0
  ELSE IF buffer[startIndex + i + 1] > CurveOrderByte(i) THEN 1
  ELSE IF buffer[startIndex + i + 1] < CurveOrderByte(i) THEN -1
  ELSE CompareFrom(buffer, startIndex, i + 1)

compareWithCurveOrder(buffer) == CompareFrom(buffer, 0, 0)

isBufferZero(buffer) == \A i \in 1..Len(buffer) : buffer[i] = 0

\* a variant of the loop that forgets the carry between bytes
RECURSIVE AddLoop_noCarry(_, _, _, _)
AddLoop_noCarry(target, addition, i, carry) ==
  IF i = 0 THEN [target |-> target, overflow |-> carry > 0]
  ELSE LET sum == target[i] + addition[i]
       IN AddLoop_noCarry([target EXCEPT ![i] = sum % ByteBase], addition, i - 1,
                          sum \div ByteBase)

RECURSIVE AddLoop(_, _, _, _)
AddLoop(target, addition, i, carry) ==
  IF i = 0 THEN [target |-> target, overflow |-> carry > 0]
  ELSE LET sum == target[i] + addition[i] + carry
       IN AddLoop([target EXCEPT ![i] = sum % ByteBase], addition, i - 1, sum \div ByteBase)

\* a variant that never reports the carry out of the top byte
addPrivateKeys_dropsOverflow(target, addition) ==
  [AddLoop(target, addition, KeyLen, 0) EXCEPT !.overflow = FALSE]

addPrivateKeys(target, addition) == AddLoop(target, addition, KeyLen, 0)

RECURSIVE SubLoop(_, _, _)
SubLoop(privateKey, i, carry) ==
  IF i = 0 THEN privateKey
  ELSE LET diff == privateKey[i] - CurveOrderByte(i - 1) - carry
       IN SubLoop([privateKey EXCEPT ![i] = IF diff < 0 THEN diff + ByteBase ELSE diff],
                  i - 1, IF diff < 0 THEN 1 ELSE 0)

subtractFromPrivateKey(privateKey) == SubLoop(privateKey, KeyLen, 0)

\* The three caller-supplied buffers of one derivation
Buffers(pk, ho, dd) ==
  [privateKeyBuffer |-> pk, hmacOutputBuffer |-> ho, derivationDataBuffer |-> dd]

\* chainCode = hmacOutputBuffer.subarray(32): a view of the buffer's second half
ChainCode(b) == Subarray(b.hmacOutputBuffer, KeyLen, HmacLen)

\* a variant of lines 73-77 that leaves privateKeyBuffer as the caller gave it
DeriveMaster_keepsKey(seed, b) ==
  Buffers(b.privateKeyBuffer, SetAt(b.hmacOutputBuffer, hmac(MASTER_SECRET, seed), 0),
          b.derivationDataBuffer)

\* lines 73-77: the master key and chain code from the seed
DeriveMaster(seed, b) ==
  LET ho == SetAt(b.hmacOutputBuffer, hmac(MASTER_SECRET, seed), 0)
  IN Buffers(SetAt(b.privateKeyBuffer, Subarray(ho, 0, KeyLen), 0), ho,
             b.derivationDataBuffer)

\* lines 85-91: the derivation input of one component
PrepareData(b, index) ==
  IF IsHardenedIndex(index)
  THEN [threw |-> FALSE,
        data |-> SetAt(SetAt([b.derivationDataBuffer EXCEPT ![1] = 0],
                             b.privateKeyBuffer, 1),
                       encodeUInt32BE(index), 1 + KeyLen)]
  ELSE LET pub == getPublicKey(b.privateKeyBuffer, TRUE)
       IN IF pub.threw THEN [threw |-> TRUE, data |-> b.derivationDataBuffer]
          ELSE [threw |-> FALSE,
                data |-> SetAt(SetAt(b.derivationDataBuffer, pub.bytes, 0),
                               encodeUInt32BE(index), 1 + KeyLen)]

\* lines 93-111: the rest of one iteration, once the input is prepared.  The
\* HMAC output overwrites the whole 64-byte buffer, the chain-code view included.
DeriveFromData(b, data) ==
  LET ho == SetAt(b.hmacOutputBuffer, hmac(ChainCode(b), data), 0)
      added == addPrivateKeys(b.privateKeyBuffer, ho)
      reduced == IF added.overflow \/ compareWithCurveOrder(added.target) >= 0
                 THEN subtractFromPrivateKey(added.target)
                 ELSE added.target
  IN IF compareWithCurveOrder(ho) >= 0
     THEN [outcome |-> "skipIL", b |-> Buffers(b.privateKeyBuffer, ho, data)]
     ELSE IF isBufferZero(reduced)
     THEN [outcome |-> "skipZero", b |-> Buffers(reduced, ho, data)]
     ELSE [outcome |-> "derived",
           b |-> Buffers(reduced, SetAt(ho, Subarray(ho, KeyLen, HmacLen), KeyLen), data)]

\* lines 83-112: one iteration of the loop
DeriveChild(b, index) ==
  LET prep == PrepareData(b, index)
  IN IF prep.threw THEN [outcome |-> "threw", b |-> b]
     ELSE DeriveFromData(b, prep.data)

RECURSIVE DeriveLoop(_, _, _)
DeriveLoop(b, indices, i) ==
  IF i > Len(indices) THEN [threw |-> FALSE, b |-> b]
  ELSE LET step == DeriveChild(b, indices[i])
       IN IF step.outcome = "threw" THEN [threw |-> TRUE, b |-> step.b]
          ELSE DeriveLoop(step.b, indices, i + 1)

\* lines 71-113: the whole call
derivePrivateKeyBuffer(seed, b, path) ==
  DeriveLoop(DeriveMaster(seed, b), parsePath(path), 1)

(***************************************************************************)
(* Values returned to the caller                                           *)
(***************************************************************************)
Returned(v) == [outcome |-> "returned", value |-> v]

Threw == [outcome |-> "threw", value |-> NULL]

(***************************************************************************)
(* keccak256, the TIP-191 message hash, recoverable ECDSA and the address  *)
(* codec.  A signature determines its signer for the digest it was made    *)
(* over; recovered over another digest it yields another key or none.      *)
(***************************************************************************)
keccak256(bytes) == Absorb(5, bytes) % KeyMod

\* "\x19TRON Signed Message:\n" + messageBytes.length, then the message
TronMessagePrefix(message) == <<25, 84, 82, 79, 78>> \o <<Len(message)>>

hashMessage(message) == keccak256(TronMessagePrefix(message) \o message)

\* secp256k1.sign(digest, privateKey): deterministic, rejects an invalid key
EcdsaR(k, digest) == 1 + (Absorb(k, <<digest>>) % (CurveOrder - 1))

EcdsaS(k, digest) == (k + 7 * digest + EcdsaR(k, digest)) % CurveOrder

\* the x coordinate of the nonce point R, below the field prime: r is x mod n,
\* so x is r, or r + n where that is still below the prime
NonceX(k, digest) ==
  LET r == EcdsaR(k, digest)
  IN IF r + CurveOrder < FieldPrime /\ Absorb(k + 1, <<digest>>) % 2 = 1
     THEN r + CurveOrder ELSE r

\* the recovery id: bit 0 the parity of R's y, bit 1 set when x is not r
RecoveryId(k, digest) ==
  (IF NonceX(k, digest) = EcdsaR(k, digest) THEN 0 ELSE 2) + ((k + digest) % 2)

secp256k1_sign(digest, privateKey) ==
  IF ~ValidPrivateKey(privateKey) THEN Threw
  ELSE LET k == BytesToInt(privateKey)
       IN Returned([r |-> EcdsaR(k, digest), s |-> EcdsaS(k, digest),
                    recovery |-> RecoveryId(k, digest)])

\* the key a signature recovers to over a digest
RecoverKey(digest, r, s) == (s + 8 * CurveOrder - 7 * (digest % CurveOrder) - r) % CurveOrder

\* hash of the 64 public key bytes, low 20 bytes, 0x41 marker, base58
AddressOfPublicKey(publicKey) == <<65, keccak256(Tail(publicKey))>>

AddressOfKey(privateKey) == AddressOfPublicKey(getPublicKey(privateKey, FALSE).bytes)

(***************************************************************************)
(* CustomTronSigningKey                                                    *)
(***************************************************************************)
\* sign(message): the signature '0x' + r + s + marker, by its parts
SigningKey_sign(privateKeyBuffer, digest) ==
  LET sig == secp256k1_sign(digest, privateKeyBuffer)
  IN IF sig.outcome = "threw" THEN Threw
     ELSE Returned([malformed |-> FALSE, r |-> sig.value.r, s |-> sig.value.s,
                    marker |-> IF sig.value.recovery # 0 THEN "1c" ELSE "1b"])

\* BigInt.toString(16)
HexChars ==
  <<"0", "1", "2", "3", "4", "5", "6", "7", "8", "9", "a", "b", "c", "d", "e", "f">>

RECURSIVE ToString16(_)
ToString16(n) ==
  IF n < 16 THEN <<HexChars[n + 1]>> ELSE ToString16(n \div 16) \o <<HexChars[(n % 16) + 1]>>

\* String.padStart(n, c): fills on the left, never cuts
RECURSIVE padStart(_, _, _)
padStart(s, n, c) == IF Len(s) >= n THEN s ELSE padStart(<<c>> \o s, n, c)

\* sign(message), lines 55-58, the string it builds
SigningKey_sign_string(privateKeyBuffer, digest) ==
  LET sig == secp256k1_sign(digest, privateKeyBuffer)
  IN IF sig.outcome = "threw" THEN Threw
     ELSE Returned(<<"0", "x">>
                   \o padStart(ToString16(sig.value.r), HexLen, "0")
                   \o padStart(ToString16(sig.value.s), HexLen, "0")
                   \o (IF sig.value.recovery # 0 THEN <<"1", "c">> ELSE <<"1", "b">>))

\* the publicKey property of the account's signing key
SigningKey_publicKey(privateKeyBuffer) ==
  LET pub == getPublicKey(privateKeyBuffer, FALSE)
  IN IF pub.threw THEN Threw ELSE Returned(pub.bytes)

\* "wrong" + signature, "invalid_signature": no signature at all
MalformedSignature == [malformed |-> TRUE, r |-> 0, s |-> 0, marker |-> "1b"]

\* tronWeb.trx.verifyMessageV2(message, signature): the recovered address, or
\* an error for a string that is no signature
verifyMessageV2(message, signature) ==
  IF signature.malformed THEN Threw
  ELSE LET k == RecoverKey(hashMessage(message), signature.r, signature.s)
       IN IF k = 0 THEN Threw ELSE Returned(AddressOfKey(IntToBytes(k, KeyLen)))

(***************************************************************************)
(* Objects.  A buffer lives on the heap and is named by a reference; a     *)
(* field holds a reference or null.  Zeroing a buffer changes what every   *)
(* holder of the reference reads; nulling a field does not.                *)
(***************************************************************************)
AccIds == 1..MaxAccounts

BufNames == {"privateKeyBuffer", "hmacOutputBuffer", "derivationDataBuffer"}

\* a variant in which every account's buffers are the first account's
Ref_oneArena(a, name) == <<1, name>>

Ref(a, name) == <<a, name>>

SeedRef == <<0, "seed">>

NullRef == <<0, "null">>

BufIds == {SeedRef} \cup {Ref(a, n) : a \in AccIds, n \in BufNames}

\* sodium.sodium_memzero(buffer): every element set to zero in place; an
\* argument that is no buffer (null) is rejected
\* a variant of sodium_memzero that overwrites nothing
sodium_memzero_leaves(contents) == contents

sodium_memzero(contents) == [i \in 1..Len(contents) |-> 0]

(***************************************************************************)
(* WalletAccountTron (wallet-account-tron.js)                              *)
(***************************************************************************)
BIP_44_TRON_DERIVATION_PATH_PREFIX == <<"m", "/", "4", "4", "'", "/", "1", "9", "5", "'">>

\* `${BIP_44_TRON_DERIVATION_PATH_PREFIX}/${path}`
FullPath(path) == BIP_44_TRON_DERIVATION_PATH_PREFIX \o <<"/">> \o path

NoAccount ==
  [made |-> FALSE, path |-> <<>>, privateKeyBuffer |-> NullRef,
   hmacOutputBuffer |-> NullRef, derivationDataBuffer |-> NullRef,
   signingKey |-> [null |-> TRUE, privateKeyBuffer |-> NullRef],
   tronWeb |-> NULL]

\* a variant of the constructor that uses the caller's seed buffer as the
\* buffer of its key
WalletAccountTron_new_keepsSeed(a, seed, path) ==
  LET fullPath == FullPath(path)
      d == derivePrivateKeyBuffer(seed,
             Buffers(Zeros(KeyLen), Zeros(HmacLen), Zeros(DataLen)), fullPath)
  IN [threw |-> d.threw,
      b |-> d.b,
      account |-> [made |-> TRUE, path |-> fullPath,
                   privateKeyBuffer |-> SeedRef,
                   hmacOutputBuffer |-> Ref(a, "hmacOutputBuffer"),
                   derivationDataBuffer |-> Ref(a, "derivationDataBuffer"),
                   signingKey |-> [null |-> FALSE, privateKeyBuffer |-> SeedRef],
                   tronWeb |-> "tronWeb"]]

\* constructor, lines 52-78: fresh buffers, the derivation, the signing key
\* around the same private-key buffer
WalletAccountTron_new(a, seed, path) ==
  LET fullPath == FullPath(path)
      d == derivePrivateKeyBuffer(seed,
             Buffers(Zeros(KeyLen), Zeros(HmacLen), Zeros(DataLen)), fullPath)
  IN [threw |-> d.threw,
      b |-> d.b,
      account |-> [made |-> TRUE, path |-> fullPath,
                   privateKeyBuffer |-> Ref(a, "privateKeyBuffer"),
                   hmacOutputBuffer |-> Ref(a, "hmacOutputBuffer"),
                   derivationDataBuffer |-> Ref(a, "derivationDataBuffer"),
                   signingKey |-> [null |-> FALSE,
                                   privateKeyBuffer |-> Ref(a, "privateKeyBuffer")],
                   tronWeb |-> "tronWeb"]]

\* parseInt(string): the value of the leading decimal digits, NaN without any
RECURSIVE LeadingDigits(_)
LeadingDigits(s) ==
  IF s = <<>> \/ ~IsDigit(Head(s)) THEN <<>>
  ELSE <<Head(s)>> \o LeadingDigits(Tail(s))

parseInt(s) == IF LeadingDigits(s) = <<>> THEN NaN ELSE Num(DecimalValue(LeadingDigits(s)))

\* get index, lines 85-87
Account_index(ac) ==
  LET parts == Split(ac.path, "/")
  IN Returned(parseInt(parts[Len(parts)]))

\* a variant of the path getter that refuses a disposed account
Account_path_refusesDisposed(ac) == IF ac.tronWeb = NULL THEN Threw ELSE Returned(ac.path)

\* get path, lines 94-96
Account_path(ac) == Returned(ac.path)

\* get keyPair, lines 103-108: the private-key buffer itself, not a copy
Account_keyPair(ac, mem) ==
  IF ac.signingKey.null THEN Threw
  ELSE LET pub == SigningKey_publicKey(mem[ac.signingKey.privateKeyBuffer])
       IN IF pub.outcome = "threw" THEN Threw
          ELSE Returned([privateKey |-> ac.privateKeyBuffer, publicKey |-> pub.value])

\* get address, lines 115-127: computed from the signing key on every read
Account_address(ac, mem) ==
  IF ac.signingKey.null THEN Threw
  ELSE LET pub == SigningKey_publicKey(mem[ac.signingKey.privateKeyBuffer])
       IN IF pub.outcome = "threw" \/ ac.tronWeb = NULL THEN Threw
          ELSE Returned(AddressOfPublicKey(pub.value))

\* getAddress, lines 162-164
Account_getAddress(ac, mem) == Account_address(ac, mem)

\* sign, lines 172-190
Account_sign(ac, mem, message) ==
  IF ac.signingKey.null THEN Threw
  ELSE SigningKey_sign(mem[ac.signingKey.privateKeyBuffer], hashMessage(message))

\* _TypedDataEncoder.hash(domain, types, message)
TypedDataHash(message) == keccak256(<<25, 1>> \o message)

\* signTypedData, lines 200-207
Account_signTypedData(ac, mem, message) ==
  IF ac.tronWeb = NULL \/ ac.signingKey.null THEN Threw
  ELSE SigningKey_sign(mem[ac.signingKey.privateKeyBuffer], TypedDataHash(message))

\* verify, lines 216-223: true unless verifyMessageV2 (or reaching it) throws
Account_verify(ac, message, signature) ==
  IF ac.tronWeb = NULL THEN Returned(FALSE)
  ELSE IF verifyMessageV2(message, signature).outcome = "threw" THEN Returned(FALSE)
  ELSE Returned(TRUE)

\* #checkProviderConnection, lines 133-139: the host is always set by the
\* constructor, so only a null #tronWeb makes it throw
checkProviderConnection(ac) == ac.tronWeb # NULL

\* a variant of dispose that changes nothing
Account_dispose_inert(a, ac, mem) == [outcome |-> "returned", account |-> ac, mem |-> mem]

\* a variant of dispose that also forgets the path
Account_dispose_dropsPath(a, ac, mem) ==
  IF ac.privateKeyBuffer = NullRef THEN [outcome |-> "threw", account |-> ac, mem |-> mem]
  ELSE [outcome |-> "returned",
        account |-> [ac EXCEPT !.path = <<>>,
                               !.privateKeyBuffer = NullRef,
                               !.hmacOutputBuffer = NullRef,
                               !.derivationDataBuffer = NullRef,
                               !.signingKey = [null |-> TRUE, privateKeyBuffer |-> NullRef],
                               !.tronWeb = NULL],
        mem |-> [mem EXCEPT
                    ![ac.privateKeyBuffer] = [i \in 1..Len(mem[ac.privateKeyBuffer]) |-> 0],
                    ![ac.hmacOutputBuffer] = [i \in 1..Len(mem[ac.hmacOutputBuffer]) |-> 0],
                    ![ac.derivationDataBuffer] =
                        [i \in 1..Len(mem[ac.derivationDataBuffer]) |-> 0]]]

\* dispose, lines 458-468
Account_dispose(a, ac, mem) ==
  IF ac.privateKeyBuffer = NullRef THEN [outcome |-> "threw", account |-> ac, mem |-> mem]
  ELSE [outcome |-> "returned",
        account |-> [ac EXCEPT !.privateKeyBuffer = NullRef,
                               !.hmacOutputBuffer = NullRef,
                               !.derivationDataBuffer = NullRef,
                               !.signingKey = [null |-> TRUE, privateKeyBuffer |-> NullRef],
                               !.tronWeb = NULL],
        mem |-> [mem EXCEPT
                    ![ac.privateKeyBuffer] = sodium_memzero(mem[ac.privateKeyBuffer]),
                    ![ac.hmacOutputBuffer] = sodium_memzero(mem[ac.hmacOutputBuffer]),
                    ![ac.derivationDataBuffer] = sodium_memzero(mem[ac.derivationDataBuffer])]]

\* what the network answers during one call: drawn by the caller of the
\* operators below
NetworkAnswers ==
  { [build |-> "fail", resources |-> "ok", broadcast |-> "accepted"],
    [build |-> "ok", resources |-> "fail", broadcast |-> "accepted"],
    [build |-> "ok", resources |-> "ok", broadcast |-> "fail"],
    [build |-> "ok", resources |-> "ok", broadcast |-> "empty"],
    [build |-> "ok", resources |-> "ok", broadcast |-> "rejected"],
    [build |-> "ok", resources |-> "ok", broadcast |-> "accepted"] }

\* the answers that matter to a call that broadcasts nothing
ReadAnswers == {net \in NetworkAnswers : net.broadcast = "accepted"}

\* the answers that matter to a call that asks the network one thing
BalanceAnswers == {net \in ReadAnswers : net.build = "ok"}

\* the answers that matter to transfer, which treats every refused broadcast alike
TransferAnswers == {net \in NetworkAnswers : net.broadcast \in {"accepted", "rejected"}}

ThrewWith(message) == [outcome |-> "threw", value |-> message]

\* #calculateTransactionCost, lines 147-155
calculateTransactionCost(ac, mem, net) ==
  IF Account_getAddress(ac, mem).outcome = "threw" \/ net.resources = "fail" THEN Threw
  ELSE Returned(1000)

\* #signTransaction, lines 433-453, for a transaction built by sendTrx (it has
\* raw_data): the signing key signs the transaction id
signTransaction(ac, mem, txID) ==
  IF ac.signingKey.null THEN Threw
  ELSE SigningKey_sign(mem[ac.signingKey.privateKeyBuffer], txID)

\* transaction.txID: the hash of the built transaction's raw data
TxId == keccak256(<<10, 2>>)

\* a variant of sendTransaction that takes any answer of the network to the
\* broadcast for an acceptance
Account_sendTransaction_trustsBroadcast(ac, mem, net) ==
  IF ~checkProviderConnection(ac)
  THEN [outcome |-> "threw", value |-> "TypeError", steps |-> <<>>]
  ELSE IF Account_getAddress(ac, mem).outcome = "threw" \/ net.build = "fail"
  THEN [outcome |-> "threw", value |-> "Failed to send transaction", steps |-> <<"build">>]
  ELSE IF calculateTransactionCost(ac, mem, net).outcome = "threw"
  THEN [outcome |-> "threw", value |-> "Failed to send transaction",
        steps |-> <<"build", "fee">>]
  ELSE IF signTransaction(ac, mem, TxId).outcome = "threw"
  THEN [outcome |-> "threw", value |-> "Failed to send transaction",
        steps |-> <<"build", "fee", "sign">>]
  ELSE IF net.broadcast = "fail"
  THEN [outcome |-> "threw", value |-> "Failed to send transaction",
        steps |-> <<"build", "fee", "sign", "broadcast">>]
  ELSE [outcome |-> "returned",
        value |-> [hash |-> TxId,
                   fee |-> calculateTransactionCost(ac, mem, net).value],
        steps |-> <<"build", "fee", "sign", "broadcast">>]

\* sendTransaction, lines 229-270.  steps lists the stages that ran.
Account_sendTransaction(ac, mem, net) ==
  IF ~checkProviderConnection(ac)
  THEN [outcome |-> "threw", value |-> "TypeError", steps |-> <<>>]
  ELSE IF Account_getAddress(ac, mem).outcome = "threw" \/ net.build = "fail"
  THEN [outcome |-> "threw", value |-> "Failed to send transaction", steps |-> <<"build">>]
  ELSE IF calculateTransactionCost(ac, mem, net).outcome = "threw"
  THEN [outcome |-> "threw", value |-> "Failed to send transaction",
        steps |-> <<"build", "fee">>]
  ELSE IF signTransaction(ac, mem, TxId).outcome = "threw"
  THEN [outcome |-> "threw", value |-> "Failed to send transaction",
        steps |-> <<"build", "fee", "sign">>]
  ELSE IF net.broadcast # "accepted"
  THEN [outcome |-> "threw", value |-> "Failed to send transaction",
        steps |-> <<"build", "fee", "sign", "broadcast">>]
  ELSE [outcome |-> "returned",
        value |-> [hash |-> TxId,
                   fee |-> calculateTransactionCost(ac, mem, net).value],
        steps |-> <<"build", "fee", "sign", "broadcast">>]

\* quoteSendTransaction, lines 278-292
Account_quoteSendTransaction(ac, mem, net) ==
  IF ~checkProviderConnection(ac) THEN Threw
  ELSE IF Account_getAddress(ac, mem).outcome = "threw" \/ net.build = "fail" THEN Threw
  ELSE IF calculateTransactionCost(ac, mem, net).outcome = "threw" THEN Threw
  ELSE Returned([hash |-> NULL, fee |-> calculateTransactionCost(ac, mem, net).value])

\* quoteTransfer, lines 348-372
Account_quoteTransfer(ac, mem, net) ==
  IF ~checkProviderConnection(ac) THEN Threw
  ELSE IF Account_getAddress(ac, mem).outcome = "threw" \/ net.build = "fail" THEN Threw
  ELSE IF calculateTransactionCost(ac, mem, net).outcome = "threw" THEN Threw
  ELSE Returned([hash |-> NULL, fee |-> calculateTransactionCost(ac, mem, net).value])

\* transfer, lines 299-341
Account_transfer(ac, mem, net) ==
  IF ~checkProviderConnection(ac) THEN Threw
  ELSE IF Account_getAddress(ac, mem).outcome = "threw" THEN Threw
  ELSE IF Account_quoteTransfer(ac, mem, net).outcome = "threw" THEN Threw
  ELSE IF ac.signingKey.null THEN Threw
  ELSE IF SigningKey_sign(mem[ac.signingKey.privateKeyBuffer], TxId).outcome = "threw"
  THEN Threw
  ELSE IF net.broadcast # "accepted" THEN Threw
  ELSE Returned([hash |-> TxId, fee |-> Account_quoteTransfer(ac, mem, net).value.fee])

\* getBalance, lines 379-384
Account_getBalance(ac, mem, net) ==
  IF ~checkProviderConnection(ac) THEN Threw
  ELSE IF Account_getAddress(ac, mem).outcome = "threw" \/ net.resources = "fail" THEN Threw
  ELSE Returned(0)

\* getTokenBalance, lines 394-431
Account_getTokenBalance(ac, mem, net) ==
  IF ~checkProviderConnection(ac) THEN Threw
  ELSE IF net.build = "fail" \/ Account_getAddress(ac, mem).outcome = "threw" THEN Threw
  ELSE IF net.resources = "fail" THEN Threw
  ELSE Returned(0)

(***************************************************************************)
(* WalletManagerTron (wallet-manager-tron.js)                              *)
(***************************************************************************)
\* a variant of String(index) that keeps only the last digit
IndexToString_lastDigit(index) == <<DigitChars[(index % 10) + 1]>>

\* String(index): the decimal digits of a non-negative integer
RECURSIVE IndexToString(_)
IndexToString(index) ==
  IF index < 10 THEN <<DigitChars[index + 1]>>
  ELSE IndexToString(index \div 10) \o <<DigitChars[(index % 10) + 1]>>

\* getAccountByPath, lines 105-111: the new account is derived from what the
\* seed buffer holds now
Manager_getAccountByPath(m, mem, a, path) ==
  IF m.tronWeb = NULL THEN [threw |-> TRUE, manager |-> m, b |-> <<>>, account |-> NoAccount]
  ELSE LET made == WalletAccountTron_new(a, mem[m.seedBuffer], path)
       IN IF made.threw
          THEN [threw |-> TRUE, manager |-> m, b |-> <<>>, account |-> NoAccount]
          ELSE [threw |-> FALSE,
                manager |-> [m EXCEPT !.accounts = IF \E i \in 1..Len(@) : @[i] = a
                                                   THEN @ ELSE Append(@, a)],
                b |-> made.b, account |-> made.account]

\* getAccount, lines 90-94
Manager_getAccount(m, mem, a, index) ==
  Manager_getAccountByPath(m, mem, a, <<"0", "'", "/", "0", "/">> \o IndexToString(index))

\* account.close() as called by the manager (line 149): the account class
\* declares dispose() and no close(), so the call is a TypeError
Account_close(a, ac, mem) == [outcome |-> "threw", account |-> ac, mem |-> mem]

\* line 149: for (const account of this.#accounts) account.close()
RECURSIVE CloseAccounts(_, _, _, _)
CloseAccounts(order, i, acs, mem) ==
  IF i > Len(order) THEN [outcome |-> "returned", accounts |-> acs, mem |-> mem]
  ELSE LET closed == Account_close(order[i], acs[order[i]], mem)
       IN IF closed.outcome = "threw"
          THEN [outcome |-> "threw", accounts |-> acs, mem |-> mem]
          ELSE CloseAccounts(order, i + 1,
                             [acs EXCEPT ![order[i]] = closed.account], closed.mem)

\* close, lines 148-156
Manager_close(m, acs, mem) ==
  LET closed == CloseAccounts(m.accounts, 1, acs, mem)
  IN IF closed.outcome = "threw"
     THEN [outcome |-> "threw", manager |-> m, accounts |-> closed.accounts,
           mem |-> closed.mem]
     ELSE IF m.seedBuffer = NullRef
     THEN [outcome |-> "threw", manager |-> [m EXCEPT !.accounts = <<>>],
           accounts |-> closed.accounts, mem |-> closed.mem]
     ELSE [outcome |-> "returned",
           manager |-> [seedBuffer |-> NullRef, accounts |-> <<>>, tronWeb |-> NULL],
           accounts |-> closed.accounts,
           mem |-> [closed.mem EXCEPT ![m.seedBuffer] = sodium_memzero(@)]]

(***************************************************************************)
(* CustomTronHDWallet (custom-hdwallet.js), the earlier derivation         *)
(***************************************************************************)
\* an argument: a Uint8Array with its contents, or a value of another type
Bytes(contents) == [isBytes |-> TRUE, contents |-> contents]

NotBytes == [isBytes |-> FALSE, contents |-> <<>>]

\* the four buffer arguments of fromSeed
FromSeedBuffers(pk, ho, dd, bk) ==
  [privateKeyBuffer |-> pk, hmacOutputBuffer |-> ho, derivationDataBuffer |-> dd,
   backupBuffer |-> bk]

\* a variant of lines 134-148 without the check of backupBuffer
FromSeedValidate_skipsBackup(seed, b) ==
  IF ~seed.isBytes THEN "seed must be a Uint8Array"
  ELSE IF ~b.privateKeyBuffer.isBytes \/ Len(b.privateKeyBuffer.contents) # KeyLen
  THEN "privateKeyBuffer must be 32 bytes"
  ELSE IF ~b.hmacOutputBuffer.isBytes \/ Len(b.hmacOutputBuffer.contents) # HmacLen
  THEN "hmacOutputBuffer must be a 64-byte Uint8Array"
  ELSE IF ~b.derivationDataBuffer.isBytes \/ Len(b.derivationDataBuffer.contents) # DataLen
  THEN "derivationDataBuffer must be a 37-byte Uint8Array"
  ELSE "ok"

\* lines 134-148: the first failing check, or none
FromSeedValidate(seed, b) ==
  IF ~seed.isBytes THEN "seed must be a Uint8Array"
  ELSE IF ~b.privateKeyBuffer.isBytes \/ Len(b.privateKeyBuffer.contents) # KeyLen
  THEN "privateKeyBuffer must be 32 bytes"
  ELSE IF ~b.hmacOutputBuffer.isBytes \/ Len(b.hmacOutputBuffer.contents) # HmacLen
  THEN "hmacOutputBuffer must be a 64-byte Uint8Array"
  ELSE IF ~b.derivationDataBuffer.isBytes \/ Len(b.derivationDataBuffer.contents) # DataLen
  THEN "derivationDataBuffer must be a 37-byte Uint8Array"
  ELSE IF ~b.backupBuffer.isBytes \/ Len(b.backupBuffer.contents) # KeyLen
  THEN "backupBuffer must be a 32-byte Uint8Array"
  ELSE "ok"

\* lines 151-155: the master key and chain code from the seed
FromSeedMaster(seed, b) ==
  LET ho == SetAt(b.hmacOutputBuffer.contents, hmac(MASTER_SECRET, seed.contents), 0)
  IN [b EXCEPT !.hmacOutputBuffer = Bytes(ho),
               !.privateKeyBuffer = Bytes(SetAt(@.contents, Subarray(ho, 0, KeyLen), 0))]

\* line 107: path.match(/^[mM]\/[0-9'/]+$/)
MatchesPathPattern(path) ==
  /\ Len(path) >= 3
  /\ path[1] \in {"m", "M"}
  /\ path[2] = "/"
  /\ \A i \in 3..Len(path) : IsDigit(path[i]) \/ path[i] \in {"'", "/"}

\* String.prototype.toLowerCase over the characters a path can hold
ToLowerCase(s) == [i \in 1..Len(s) |-> IF s[i] = "M" THEN "m" ELSE s[i]]

\* lines 115-121: parseInt(component), plus HARDENED_OFFSET when the component
\* ends with '; NaN plus a number is NaN
ComponentIndex(component) ==
  LET index == parseInt(component)
  IN IF component # <<>> /\ component[Len(component)] = "'"
     THEN IF index.nan THEN NaN ELSE Num(index.v + HARDENED_OFFSET)
     ELSE index

\* #parsePath, lines 106-122
HDWallet_parsePath(path) ==
  IF ~MatchesPathPattern(path) THEN [threw |-> TRUE, indices |-> <<>>]
  ELSE LET parts == Tail(Split(ToLowerCase(path), "/"))
       IN [threw |-> FALSE, indices |-> [i \in 1..Len(parts) |-> ComponentIndex(parts[i])]]

\* lines 177-187 and 201-212: the loop that stops at the first differing byte
\* and reports only "greater"
ExceedsCurveOrder(buffer) == CompareFrom(buffer, 0, 0) = 1

\* lines 163-173: the derivation input of one component
FromSeedPrepare(b, index) ==
  IF IsHardenedIndex(index)
  THEN [threw |-> FALSE,
        data |-> SetAt(SetAt([b.derivationDataBuffer.contents EXCEPT ![1] = 0],
                             b.privateKeyBuffer.contents, 1),
                       encodeUInt32BE(index), 1 + KeyLen)]
  ELSE LET pub == getPublicKey(b.privateKeyBuffer.contents, TRUE)
       IN IF pub.threw THEN [threw |-> TRUE, data |-> b.derivationDataBuffer.contents]
          ELSE [threw |-> FALSE,
                data |-> SetAt(SetAt(b.derivationDataBuffer.contents, pub.bytes, 0),
                               encodeUInt32BE(index), 1 + KeyLen)]

\* lines 161-238: one iteration of the loop
FromSeedChild(b, index) ==
  LET prep == FromSeedPrepare(b, index)
      ho == SetAt(b.hmacOutputBuffer.contents,
                  hmac(Subarray(b.hmacOutputBuffer.contents, KeyLen, HmacLen), prep.data), 0)
      added == AddLoop(b.privateKeyBuffer.contents, ho, KeyLen, 0)
      reduced == IF added.overflow \/ ExceedsCurveOrder(added.target)
                 THEN SubLoop(added.target, KeyLen, 0)
                 ELSE added.target
      afterHmac == [b EXCEPT !.derivationDataBuffer = Bytes(prep.data),
                             !.hmacOutputBuffer = Bytes(ho)]
  IN IF prep.threw THEN [outcome |-> "threw", b |-> b]
     ELSE IF ExceedsCurveOrder(ho) THEN [outcome |-> "skipIL", b |-> afterHmac]
     ELSE IF isBufferZero(reduced)
     THEN [outcome |-> "skipZero", b |-> [afterHmac EXCEPT !.privateKeyBuffer = Bytes(reduced)]]
     ELSE [outcome |-> "derived", b |-> [afterHmac EXCEPT !.privateKeyBuffer = Bytes(reduced)]]

\* line 241 and the constructor, lines 32-36: the wallet keeps the signing key
\* and the address computed once from it; computeAddress throws for a key the
\* curve rejects
HDWallet_new(privateKeyBuffer) ==
  IF ~ValidPrivateKey(privateKeyBuffer) THEN Threw
  ELSE Returned([address |-> AddressOfKey(privateKeyBuffer)])

(***************************************************************************)
(* Inputs of the derivation                                                *)
(***************************************************************************)
SeedBytes == 0..MaxSeedByte

\* a seed is any byte sequence; the empty one included
Seeds == {<<>>} \cup {<<x>> : x \in SeedBytes} \cup {<<x, y>> : x \in SeedBytes, y \in SeedBytes}

\* account-relative paths, as given to getAccountByPath
RelativePaths ==
  { <<"0", "'", "/", "0", "/", "0">>,
    <<"0", "'", "/", "0", "/", "1">>,
    <<"0", "'", "/", "0", "'">>,
    <<"0", "'", "/", "0", "/", "5", "0", "0", "0", "0">> }

\* full paths m/c1/.../ck, each ci decimal digits with an optional '
DerivePaths ==
  { FullPath(p) : p \in RelativePaths } \cup
  { <<"m">>,
    <<"m", "/", "0">>,
    <<"m", "/", "1", "/", "2">>,
    <<"m", "/", "0", "'">>,
    <<"m", "/", "5", "0", "0", "0", "0">>,
    <<"m", "/", "5", "0", "0", "0", "0", "/", "3">>,
    <<"m", "/", "7", "'", "/", "5", "0", "0", "0", "1">> }

\* paths given to fromSeed: of the grammar, refused by the pattern, and outside
\* the grammar but let through by the pattern
FromSeedPaths ==
  { <<"m", "/", "0">>,
    <<"m", "/", "0", "'">>,
    <<"m", "/", "1", "/", "2">>,
    <<"M", "/", "7", "'", "/", "3">>,
    FullPath(<<"0", "'", "/", "0", "/", "0">>),
    <<"m", "/", "5", "0", "0", "0", "0">>,
    <<"m", "/", "5", "0", "0", "0", "0", "'">>,
    <<"m">>,
    <<>>,
    <<"x", "/", "0">>,
    <<"m", "/", "a">>,
    <<"m", "/", "/", "1">>,
    <<"m", "/", "1", "/">>,
    <<"m", "/", "'">>,
    <<"m", "/", "1", "'", "'">>,
    <<"m", "/", "1", "'", "2">> }

\* what a caller may pass for a buffer of n elements: one of that size, one
\* shorter, one longer, or a value that is no Uint8Array
BufferArgs(n) ==
  { Bytes(Filled(n, ByteBase - 1)), Bytes(Filled(n - 1, ByteBase - 1)),
    Bytes(Filled(n + 1, ByteBase - 1)), NotBytes }

\* the buffer arguments of one call: at most one of them is not as required
FromSeedArgs ==
  { b \in [privateKeyBuffer : BufferArgs(KeyLen), hmacOutputBuffer : BufferArgs(HmacLen),
           derivationDataBuffer : BufferArgs(DataLen), backupBuffer : BufferArgs(KeyLen)] :
      Cardinality({ name \in {"privateKeyBuffer", "hmacOutputBuffer",
                              "derivationDataBuffer", "backupBuffer"} :
                    b[name] # IF name = "hmacOutputBuffer" THEN Bytes(Filled(HmacLen, ByteBase - 1))
                              ELSE IF name = "derivationDataBuffer"
                              THEN Bytes(Filled(DataLen, ByteBase - 1))
                              ELSE Bytes(Filled(KeyLen, ByteBase - 1)) }) <= 1 }

GoodBuffers ==
  FromSeedBuffers(Bytes(Filled(KeyLen, ByteBase - 1)), Bytes(Filled(HmacLen, ByteBase - 1)),
                  Bytes(Filled(DataLen, ByteBase - 1)), Bytes(Filled(KeyLen, ByteBase - 1)))

\* seeds, paths and messages of the wallet's life cycle
LifeSeeds == {<<2, 3>>}

LifePaths == { <<"0", "'", "/", "0", "'">> }

AccountIndices == {12}

\* what a caller writes into the first element of an array it holds
CallerBytes == {9}

Messages == {<<1>>, <<2, 3>>}

\* the message whose signature is verified
VerifiedMessage == <<1>>

\* dSeed .. dReused: one call of derivePrivateKeyBuffer (its arguments, its
\* position in the loop, what it has done so far).
\* heap: the contents of every buffer; manager, accounts: the objects' fields;
\* last: the most recent call and what it gave back; held: the accounts whose
\* keyPair.privateKey array the caller holds; disposed: the accounts whose
\* dispose() has returned.
\* fSeed .. fWallet: one call of CustomTronHDWallet.fromSeed (its arguments,
\* the buffers as they were when it was called, its position, the HMAC and
\* curve operations it has run, its error, the wallet it returned).
VARIABLES dSeed, dPath, dBuf, dIndices, dPos, dPc, dLog, dReused,
          heap, manager, accounts, last, held, disposed,
          fSeed, fPath, fBuf, fInitial, fIndices, fPos, fPc, fLog, fHmacs, fCurve,
          fError, fWallet,
          sKey, sDigest, sPc, sSigned,
          kIn, kOut, kPc

dvars == <<dSeed, dPath, dBuf, dIndices, dPos, dPc, dLog, dReused>>

lvars == <<heap, manager, accounts, last, held, disposed>>

fvars == <<fSeed, fPath, fBuf, fInitial, fIndices, fPos, fPc, fLog, fHmacs, fCurve,
           fError, fWallet>>

svars == <<sKey, sDigest, sPc, sSigned>>

kvars == <<kIn, kOut, kPc>>

vars == <<dSeed, dPath, dBuf, dIndices, dPos, dPc, dLog, dReused,
          heap, manager, accounts, last, held, disposed,
          fSeed, fPath, fBuf, fInitial, fIndices, fPos, fPc, fLog, fHmacs, fCurve,
          fError, fWallet,
          sKey, sDigest, sPc, sSigned,
          kIn, kOut, kPc>>

Call(op, a, result, args) ==
  [op |-> op, acc |-> a, outcome |-> result.outcome, value |-> result.value,
   args |-> args, steps |-> <<>>]

\* new WalletManagerTron(seedBuffer): the manager keeps the caller's buffer
LifeStart(seed) ==
  /\ heap = [r \in BufIds |-> IF r = SeedRef THEN seed ELSE <<>>]
  /\ manager = [seedBuffer |-> SeedRef, accounts |-> <<>>, tronWeb |-> "tronWeb"]
  /\ accounts = [a \in AccIds |-> NoAccount]
  /\ last = Call("new WalletManagerTron", 0, Returned(NULL), <<>>)
  /\ held = {}
  /\ disposed = {}

NoBuffers == FromSeedBuffers(NotBytes, NotBytes, NotBytes, NotBytes)

FromSeedIdle ==
  /\ fSeed = NotBytes
  /\ fPath = <<>>
  /\ fBuf = NoBuffers
  /\ fInitial = NoBuffers
  /\ fIndices = <<>>
  /\ fPos = 0
  /\ fPc = "idle"
  /\ fLog = <<>>
  /\ fHmacs = 0
  /\ fCurve = 0
  /\ fError = NULL
  /\ fWallet = NULL

\* no call of addPrivateKeys under way
AddIdle ==
  /\ kIn = [target |-> <<>>, addition |-> <<>>]
  /\ kOut = [target |-> <<>>, addition |-> <<>>, overflow |-> FALSE]
  /\ kPc = "idle"

SignIdle ==
  /\ sKey = NotBytes
  /\ sDigest = 0
  /\ sPc = "idle"
  /\ sSigned = Returned(NULL)

DeriveIdle ==
  /\ dSeed = <<>>
  /\ dPath = <<"m">>
  /\ dBuf = Buffers(Zeros(KeyLen), Zeros(HmacLen), Zeros(DataLen))
  /\ dIndices = <<>>
  /\ dPos = 0
  /\ dPc = "idle"
  /\ dLog = <<>>
  /\ dReused = FALSE

(***************************************************************************)
(* One call of derivePrivateKeyBuffer, an action per loop iteration.  The  *)
(* buffers hold whatever the caller left in them: zeros when freshly       *)
(* allocated, or the leftovers of an earlier call.                         *)
(***************************************************************************)
DeriveInit ==
  /\ dSeed \in Seeds
  /\ dPath \in DerivePaths
  /\ \E v \in {0, ByteBase - 1} :
       dBuf = Buffers(Filled(KeyLen, v), Filled(HmacLen, v), Filled(DataLen, v))
  /\ dIndices = <<>>
  /\ dPos = 0
  /\ dPc = "called"
  /\ dLog = <<>>
  /\ dReused = FALSE
  /\ LifeStart(<<>>)
  /\ FromSeedIdle
  /\ SignIdle
  /\ AddIdle

\* lines 73-80
DeriveBegin ==
  /\ dPc = "called"
  /\ dBuf' = DeriveMaster(dSeed, dBuf)
  /\ dIndices' = parsePath(dPath)
  /\ dPos' = 1
  /\ dPc' = "loop"
  /\ UNCHANGED <<dSeed, dPath, dLog, dReused>>
  /\ UNCHANGED <<lvars, fvars, svars, kvars>>

\* lines 83-112, one component
DeriveStep ==
  /\ dPc = "loop"
  /\ dPos <= Len(dIndices)
  /\ LET step == DeriveChild(dBuf, dIndices[dPos])
     IN /\ dBuf' = step.b
        /\ dLog' = Append(dLog,
             [component |-> Split(dPath, "/")[dPos],
              index |-> dIndices[dPos],
              hardened |-> IsHardenedIndex(dIndices[dPos]),
              keyIn |-> dBuf.privateKeyBuffer,
              chainIn |-> ChainCode(dBuf),
              outcome |-> step.outcome,
              data |-> step.b.derivationDataBuffer,
              IL |-> Subarray(step.b.hmacOutputBuffer, 0, KeyLen),
              keyOut |-> step.b.privateKeyBuffer,
              chainOut |-> ChainCode(step.b)])
        /\ dPc' = IF step.outcome = "threw" THEN "threw" ELSE "loop"
        /\ dPos' = dPos + 1
  /\ UNCHANGED <<dSeed, dPath, dIndices, dReused>>
  /\ UNCHANGED <<lvars, fvars, svars, kvars>>

\* line 113
DeriveReturn ==
  /\ dPc = "loop"
  /\ dPos > Len(dIndices)
  /\ dPc' = "returned"
  /\ UNCHANGED <<dSeed, dPath, dBuf, dIndices, dPos, dLog, dReused>>
  /\ UNCHANGED <<lvars, fvars, svars, kvars>>

\* the caller derives another path with the same buffers
DeriveAgain ==
  /\ dPc \in {"returned", "threw"}
  /\ ~dReused
  /\ dPath' \in DerivePaths \ {dPath}
  /\ dReused' = TRUE
  /\ dIndices' = <<>>
  /\ dPos' = 0
  /\ dPc' = "called"
  /\ dLog' = <<>>
  /\ UNCHANGED <<dSeed, dBuf>>
  /\ UNCHANGED <<lvars, fvars, svars, kvars>>

DeriveNext == DeriveBegin \/ DeriveStep \/ DeriveReturn \/ DeriveAgain

SpecDerive == DeriveInit /\ [][DeriveNext]_vars

(***************************************************************************)
(* The life cycle: a caller with one seed buffer, one manager and up to    *)
(* MaxAccounts accounts.  Each action is one call by the caller.           *)
(***************************************************************************)
Init ==
  /\ \E seed \in LifeSeeds : LifeStart(seed)
  /\ DeriveIdle
  /\ FromSeedIdle
  /\ SignIdle
  /\ AddIdle

Made(a) == accounts[a].made

NextSlot == 1 + Cardinality({a \in AccIds : Made(a)})

\* the heap once account a's constructor has filled its three buffers
Allocate(mem, a, b) ==
  [mem EXCEPT ![Ref(a, "privateKeyBuffer")] = b.privateKeyBuffer,
              ![Ref(a, "hmacOutputBuffer")] = b.hmacOutputBuffer,
              ![Ref(a, "derivationDataBuffer")] = b.derivationDataBuffer]

Created(op, made, args) ==
  IF made.threw
  THEN /\ last' = Call(op, 0, Threw, args)
       /\ UNCHANGED <<heap, manager, accounts>>
  ELSE /\ last' = Call(op, NextSlot, Returned(NextSlot), args)
       /\ heap' = Allocate(heap, NextSlot, made.b)
       /\ accounts' = [accounts EXCEPT ![NextSlot] = made.account]
       /\ manager' = made.manager

GetAccount ==
  /\ NextSlot <= MaxAccounts
  /\ \E index \in AccountIndices :
       Created("getAccount", Manager_getAccount(manager, heap, NextSlot, index), index)
  /\ UNCHANGED <<held, disposed>>
  /\ UNCHANGED <<dvars, fvars, svars, kvars>>

GetAccountByPath ==
  /\ NextSlot <= MaxAccounts
  /\ \E path \in LifePaths :
       Created("getAccountByPath", Manager_getAccountByPath(manager, heap, NextSlot, path),
               path)
  /\ UNCHANGED <<held, disposed>>
  /\ UNCHANGED <<dvars, fvars, svars, kvars>>

\* a call that changes no object
Query(op, a, result, args) ==
  /\ Made(a)
  /\ last' = Call(op, a, result, args)
  /\ UNCHANGED <<heap, manager, accounts, held, disposed>>
  /\ UNCHANGED <<dvars, fvars, svars, kvars>>

ReadPath == \E a \in AccIds : Query("path", a, Account_path(accounts[a]), <<>>)

ReadIndex == \E a \in AccIds : Query("index", a, Account_index(accounts[a]), <<>>)

ReadKeyPair ==
  \E a \in AccIds :
    /\ Made(a)
    /\ last' = Call("keyPair", a, Account_keyPair(accounts[a], heap), <<>>)
    /\ held' = IF Account_keyPair(accounts[a], heap).outcome = "returned"
               THEN held \cup {Account_keyPair(accounts[a], heap).value.privateKey}
               ELSE held
    /\ UNCHANGED <<heap, manager, accounts, disposed>>
    /\ UNCHANGED <<dvars, fvars, svars, kvars>>

ReadAddress == \E a \in AccIds : Query("address", a, Account_address(accounts[a], heap), <<>>)

GetAddress ==
  \E a \in AccIds : Query("getAddress", a, Account_getAddress(accounts[a], heap), <<>>)

Sign ==
  \E a \in AccIds, message \in Messages :
    Query("sign", a, Account_sign(accounts[a], heap, message), message)

SignTypedData ==
  \E a \in AccIds, message \in {VerifiedMessage} :
    Query("signTypedData", a, Account_signTypedData(accounts[a], heap, message), message)

\* the signatures a caller can present for a message: one made over it by the
\* key of any account, one made over another message by the key of any
\* account, or a string that is no signature
Signers == {c \in AccIds : Made(c) /\ ValidPrivateKey(heap[Ref(c, "privateKeyBuffer")])}

Signatures ==
  {MalformedSignature} \cup
  { SigningKey_sign(heap[Ref(b, "privateKeyBuffer")], hashMessage(m)).value :
      b \in Signers, m \in Messages }

Verify ==
  \E a \in AccIds, signature \in Signatures :
    Query("verify", a, Account_verify(accounts[a], VerifiedMessage, signature),
          [message |-> VerifiedMessage, signature |-> signature])

GetBalance ==
  \E a \in AccIds, net \in BalanceAnswers :
    Query("getBalance", a, Account_getBalance(accounts[a], heap, net), <<>>)

GetTokenBalance ==
  \E a \in AccIds, net \in ReadAnswers :
    Query("getTokenBalance", a, Account_getTokenBalance(accounts[a], heap, net), <<>>)

QuoteSendTransaction ==
  \E a \in AccIds, net \in ReadAnswers :
    Query("quoteSendTransaction", a,
          Account_quoteSendTransaction(accounts[a], heap, net), <<>>)

QuoteTransfer ==
  \E a \in AccIds, net \in ReadAnswers :
    Query("quoteTransfer", a, Account_quoteTransfer(accounts[a], heap, net), <<>>)

SendTransaction ==
  \E a \in AccIds, net \in NetworkAnswers :
    /\ Made(a)
    /\ last' = [Call("sendTransaction", a,
                     Account_sendTransaction(accounts[a], heap, net), net)
                  EXCEPT !.steps = Account_sendTransaction(accounts[a], heap, net).steps]
    /\ UNCHANGED <<heap, manager, accounts, held, disposed>>
    /\ UNCHANGED <<dvars, fvars, svars, kvars>>

Transfer ==
  \E a \in AccIds, net \in TransferAnswers :
    Query("transfer", a, Account_transfer(accounts[a], heap, net), <<>>)

Dispose ==
  \E a \in AccIds :
    /\ Made(a)
    /\ LET r == Account_dispose(a, accounts[a], heap)
       IN /\ last' = Call("dispose", a, [outcome |-> r.outcome, value |-> NULL], <<>>)
          /\ accounts' = [accounts EXCEPT ![a] = r.account]
          /\ heap' = r.mem
          /\ disposed' = IF r.outcome = "returned" THEN disposed \cup {a} ELSE disposed
    /\ UNCHANGED <<manager, held>>
    /\ UNCHANGED <<dvars, fvars, svars, kvars>>

ManagerClose ==
  /\ LET r == Manager_close(manager, accounts, heap)
     IN /\ last' = Call("close", 0, [outcome |-> r.outcome, value |-> NULL], <<>>)
        /\ manager' = r.manager
        /\ accounts' = r.accounts
        /\ heap' = r.mem
  /\ UNCHANGED <<held, disposed>>
  /\ UNCHANGED <<dvars, fvars, svars, kvars>>

\* the caller writes into an array it got from keyPair.privateKey
CallerWrite ==
  /\ \E r \in held, v \in CallerBytes :
       /\ heap[r][1] # v
       /\ heap' = [heap EXCEPT ![r] = SetAt(@, <<v>>, 0)]
       /\ last' = Call("write keyPair.privateKey", r[1], Returned(NULL), <<>>)
  /\ UNCHANGED <<manager, accounts, held, disposed>>
  /\ UNCHANGED <<dvars, fvars, svars, kvars>>

\* the caller erases its seed buffer: sodium.sodium_memzero(seedBuffer)
ZeroSeed ==
  /\ heap' = [heap EXCEPT ![SeedRef] = sodium_memzero(@)]
  /\ last' = Call("sodium_memzero(seedBuffer)", 0, Returned(NULL), <<>>)
  /\ UNCHANGED <<manager, accounts, held, disposed>>
  /\ UNCHANGED <<dvars, fvars, svars, kvars>>

Next ==
  \/ GetAccount
  \/ GetAccountByPath
  \/ ReadPath
  \/ ReadIndex
  \/ ReadKeyPair
  \/ ReadAddress
  \/ GetAddress
  \/ Sign
  \/ SignTypedData
  \/ Verify
  \/ GetBalance
  \/ GetTokenBalance
  \/ QuoteSendTransaction
  \/ QuoteTransfer
  \/ SendTransaction
  \/ Transfer
  \/ Dispose
  \/ ManagerClose
  \/ CallerWrite
  \/ ZeroSeed

Spec == Init /\ [][Next]_vars

(***************************************************************************)
(* One call of CustomTronHDWallet.fromSeed, an action per stage.  Arguments *)
(* that are not as required come with one sample seed; well-formed ones     *)
(* with every seed.                                                         *)
(***************************************************************************)
FromSeedInit ==
  /\ \/ /\ fSeed \in {Bytes(seed) : seed \in Seeds}
        /\ fBuf = GoodBuffers
     \/ /\ fSeed \in {Bytes(seed) : seed \in LifeSeeds} \cup {NotBytes}
        /\ fBuf \in FromSeedArgs
  /\ fPath \in FromSeedPaths
  /\ fInitial = fBuf
  /\ fIndices = <<>>
  /\ fPos = 0
  /\ fPc = "called"
  /\ fLog = <<>>
  /\ fHmacs = 0
  /\ fCurve = 0
  /\ fError = NULL
  /\ fWallet = NULL
  /\ LifeStart(<<>>)
  /\ DeriveIdle
  /\ SignIdle
  /\ AddIdle

\* lines 134-148
FromSeedCheck ==
  /\ fPc = "called"
  /\ fPc' = IF FromSeedValidate(fSeed, fBuf) = "ok" THEN "checked" ELSE "threw"
  /\ fError' = IF FromSeedValidate(fSeed, fBuf) = "ok" THEN NULL
               ELSE FromSeedValidate(fSeed, fBuf)
  /\ UNCHANGED <<fSeed, fPath, fBuf, fInitial, fIndices, fPos, fLog, fHmacs, fCurve, fWallet>>
  /\ UNCHANGED <<dvars, lvars, svars, kvars>>

\* lines 151-155
FromSeedDeriveMaster ==
  /\ fPc = "checked"
  /\ fBuf' = FromSeedMaster(fSeed, fBuf)
  /\ fHmacs' = fHmacs + 1
  /\ fPc' = "master"
  /\ UNCHANGED <<fSeed, fPath, fInitial, fIndices, fPos, fLog, fCurve, fError, fWallet>>
  /\ UNCHANGED <<dvars, lvars, svars, kvars>>

\* line 158
FromSeedParse ==
  /\ fPc = "master"
  /\ IF HDWallet_parsePath(fPath).threw
     THEN /\ fPc' = "threw"
          /\ fError' = "Invalid derivation path"
          /\ UNCHANGED <<fIndices, fPos>>
     ELSE /\ fPc' = "loop"
          /\ fIndices' = HDWallet_parsePath(fPath).indices
          /\ fPos' = 1
          /\ UNCHANGED fError
  /\ UNCHANGED <<fSeed, fPath, fBuf, fInitial, fLog, fHmacs, fCurve, fWallet>>
  /\ UNCHANGED <<dvars, lvars, svars, kvars>>

\* lines 161-238, one component
FromSeedStep ==
  /\ fPc = "loop"
  /\ fPos <= Len(fIndices)
  /\ LET step == FromSeedChild(fBuf, fIndices[fPos])
     IN /\ fBuf' = step.b
        /\ fLog' = Append(fLog,
             [component |-> Tail(Split(ToLowerCase(fPath), "/"))[fPos],
              index |-> fIndices[fPos],
              hardened |-> IsHardenedIndex(fIndices[fPos]),
              keyIn |-> fBuf.privateKeyBuffer.contents,
              outcome |-> step.outcome,
              data |-> step.b.derivationDataBuffer.contents,
              IL |-> Subarray(step.b.hmacOutputBuffer.contents, 0, KeyLen),
              keyOut |-> step.b.privateKeyBuffer.contents])
        /\ fPc' = IF step.outcome = "threw" THEN "threw" ELSE "loop"
        /\ fError' = IF step.outcome = "threw" THEN "curve error" ELSE fError
        /\ fHmacs' = IF step.outcome = "threw" THEN fHmacs ELSE fHmacs + 1
        /\ fCurve' = IF IsHardenedIndex(fIndices[fPos]) THEN fCurve ELSE fCurve + 1
        /\ fPos' = fPos + 1
  /\ UNCHANGED <<fSeed, fPath, fInitial, fIndices, fWallet>>
  /\ UNCHANGED <<dvars, lvars, svars, kvars>>

\* line 241: the signing key around the caller's buffer, the wallet around it
FromSeedReturn ==
  /\ fPc = "loop"
  /\ fPos > Len(fIndices)
  /\ LET made == HDWallet_new(fBuf.privateKeyBuffer.contents)
     IN /\ fPc' = IF made.outcome = "threw" THEN "threw" ELSE "returned"
        /\ fError' = IF made.outcome = "threw" THEN "curve error" ELSE fError
        /\ fWallet' = made.value
  /\ fCurve' = fCurve + 1
  /\ UNCHANGED <<fSeed, fPath, fBuf, fInitial, fIndices, fPos, fLog, fHmacs>>
  /\ UNCHANGED <<dvars, lvars, svars, kvars>>

\* the caller writes into the privateKeyBuffer it passed to fromSeed
FromSeedCallerWrite ==
  /\ fPc = "returned"
  /\ \E v \in CallerBytes :
       /\ fBuf.privateKeyBuffer.contents[1] # v
       /\ fBuf' = [fBuf EXCEPT !.privateKeyBuffer = Bytes(SetAt(@.contents, <<v>>, 0))]
  /\ UNCHANGED <<fSeed, fPath, fInitial, fIndices, fPos, fPc, fLog, fHmacs, fCurve,
                 fError, fWallet>>
  /\ UNCHANGED <<dvars, lvars, svars, kvars>>

FromSeedNext ==
  \/ FromSeedCheck
  \/ FromSeedDeriveMaster
  \/ FromSeedParse
  \/ FromSeedStep
  \/ FromSeedReturn
  \/ FromSeedCallerWrite

SpecFromSeed == FromSeedInit /\ [][FromSeedNext]_vars

(***************************************************************************)
(* A CustomTronSigningKey around one key buffer, and its calls of sign.     *)
(***************************************************************************)
\* every buffer of the key's length, the invalid keys among them
SignKeys == [1..KeyLen -> 0..(ByteBase - 1)]

\* every digest the unkeyed hash can yield
Digests == 0..(KeyMod - 1)

\* new CustomTronSigningKey(privateKeyBuffer), lines 31-45
SignInit ==
  /\ sKey \in {Bytes(k) : k \in SignKeys}
  /\ sDigest = 0
  /\ sPc = "constructed"
  /\ sSigned = Returned(NULL)
  /\ LifeStart(<<>>)
  /\ DeriveIdle
  /\ FromSeedIdle
  /\ AddIdle

\* sign(message), lines 55-58
SignDigest ==
  /\ sPc = "constructed"
  /\ \E digest \in Digests :
       /\ sDigest' = digest
       /\ sSigned' = SigningKey_sign_string(sKey.contents, digest)
  /\ sPc' = "signed"
  /\ UNCHANGED sKey
  /\ UNCHANGED <<dvars, lvars, fvars, kvars>>

SignNext == SignDigest

SpecSign == SignInit /\ [][SignNext]_vars

(***************************************************************************)
(* One call of addPrivateKeys on two different buffers.                    *)
(***************************************************************************)
\* every private-key buffer
AddTargets == [1..KeyLen -> 0..(ByteBase - 1)]

\* HMAC output buffers: every left half, two right halves
AddAdditions ==
  {il \o ir : il \in [1..KeyLen -> 0..(ByteBase - 1)],
              ir \in {Filled(HmacLen - KeyLen, 0), Filled(HmacLen - KeyLen, ByteBase - 1)}}

AddInit ==
  /\ kIn \in [target : AddTargets, addition : AddAdditions]
  /\ kOut = [target |-> kIn.target, addition |-> kIn.addition, overflow |-> FALSE]
  /\ kPc = "called"
  /\ LifeStart(<<>>)
  /\ DeriveIdle
  /\ FromSeedIdle
  /\ SignIdle

\* lines 51-59: the loop writes target only
AddKeys ==
  /\ kPc = "called"
  /\ kOut' = [target |-> addPrivateKeys(kOut.target, kOut.addition).target,
              addition |-> kOut.addition,
              overflow |-> addPrivateKeys(kOut.target, kOut.addition).overflow]
  /\ kPc' = "returned"
  /\ UNCHANGED kIn
  /\ UNCHANGED <<dvars, lvars, fvars, svars>>

AddNext == AddKeys

SpecAdd == AddInit /\ [][AddNext]_vars

(***************************************************************************)
(* The derivation against its description                                  *)
(***************************************************************************)
\* the components c1 .. ck of a path m/c1/.../ck
Components(path) == Tail(Split(path, "/"))

\* a component written with the suffix '
MarkedHardened(c) == c # <<>> /\ c[Len(c)] = "'"

Digits(c) == IF MarkedHardened(c) THEN SubSeq(c, 1, Len(c) - 1) ELSE c

\* the index a component stands for: its decimal value, plus 2^31 when marked
DeclaredIndex(c) ==
  Num(DecimalValue(Digits(c)) + (IF MarkedHardened(c) THEN HARDENED_OFFSET ELSE 0))

\* every component is a decimal integer below 2^31, optionally marked
WellFormedPath(path) ==
  /\ Head(Split(path, "/")) = <<"m">>
  /\ \A i \in 1..Len(Components(path)) :
       LET d == Digits(Components(path)[i])
       IN /\ d # <<>>
          /\ \A j \in 1..Len(d) : IsDigit(d[j])
          /\ DecimalValue(d) < HARDENED_OFFSET

IndexBytes(data) == Subarray(data, 1 + KeyLen, DataLen)

\* C1: a call that returns for a path m/c1/.../ck has performed exactly k
\* steps, step i writing the big-endian bytes of ci (plus 2^31 when ci is
\* marked) into the derivation input, each step starting from the key and
\* chain code the previous one left.
C1_StepsFollowPath ==
  (dPc = "returned" /\ WellFormedPath(dPath)) =>
    /\ Len(dLog) = Len(Components(dPath))
    /\ \A i \in 1..Len(dLog) :
         IndexBytes(dLog[i].data) = encodeUInt32BE(DeclaredIndex(Components(dPath)[i]))
    /\ \A i \in 2..Len(dLog) :
         /\ dLog[i].keyIn = dLog[i - 1].keyOut
         /\ dLog[i].chainIn = dLog[i - 1].chainOut

\* C2: every step of a component marked ' takes the private-key branch: its
\* derivation input is 0x00, then the current private key, then the index
\* bytes; only unmarked components take the public-key branch.
C2_HardenedUsesPrivateKey ==
  WellFormedPath(dPath) =>
    \A i \in 1..Len(dLog) :
      MarkedHardened(dLog[i].component) =>
        /\ dLog[i].hardened
        /\ Subarray(dLog[i].data, 0, 1 + KeyLen) = <<0>> \o dLog[i].keyIn

\* C3: when the call returns, privateKeyBuffer read as a big-endian integer k
\* satisfies 1 <= k < n, and so does the key left by every completed step,
\* skipped steps included.
C3_KeyInRange ==
  (dPc = "returned" /\ WellFormedPath(dPath)) =>
    /\ ValidPrivateKey(dBuf.privateKeyBuffer)
    /\ \A i \in 1..Len(dLog) : ValidPrivateKey(dLog[i].keyOut)

\* C4: whatever the three buffers held when the call began (zeros, a fill, or
\* the leftovers of deriving another path), the call leaves in privateKeyBuffer
\* exactly what a call with the same seed and path leaves in fresh buffers.
C4_KeyIndependentOfBuffers ==
  dPc \in {"returned", "threw"} =>
    dBuf.privateKeyBuffer =
      derivePrivateKeyBuffer(dSeed,
        Buffers(Zeros(KeyLen), Zeros(HmacLen), Zeros(DataLen)), dPath).b.privateKeyBuffer

\* a call that returned although it began with the leftovers of deriving
\* another path in all three buffers
C4_Witness ==
  /\ dPc = "returned"
  /\ dReused
  /\ Len(dLog) >= 2
  /\ dLog[1].keyIn # Zeros(KeyLen)

(***************************************************************************)
(* The life cycle against its description                                  *)
(***************************************************************************)
AllZero(contents, n) == contents = Zeros(n)

\* C5: when dispose() has returned, the account's private-key, HMAC and
\* derivation buffers are all zero, so an array the caller got from
\* keyPair.privateKey before reads as zeros.
C5_DisposeZeroesBuffers ==
  (last.op = "dispose" /\ last.outcome = "returned") =>
    /\ AllZero(heap[Ref(last.acc, "privateKeyBuffer")], KeyLen)
    /\ AllZero(heap[Ref(last.acc, "hmacOutputBuffer")], HmacLen)
    /\ AllZero(heap[Ref(last.acc, "derivationDataBuffer")], DataLen)
    /\ \A r \in held : r = Ref(last.acc, "privateKeyBuffer") => AllZero(heap[r], KeyLen)

\* dispose() has just returned on an account whose keyPair.privateKey array
\* the caller holds
C5_Witness ==
  /\ last.op = "dispose"
  /\ last.outcome = "returned"
  /\ Ref(last.acc, "privateKeyBuffer") \in held

SigningOps == {"sign", "signTypedData", "sendTransaction", "transfer"}

\* C6: once dispose() has returned on an account, every call of sign,
\* signTypedData, sendTransaction or transfer on it fails, and in no later state
\* would a call of sign or signTypedData return a signature.
C6_DisposalIsTerminal ==
  \A a \in disposed :
    /\ (last.acc = a /\ last.op \in SigningOps) => last.outcome = "threw"
    /\ \A message \in Messages :
         /\ Account_sign(accounts[a], heap, message).outcome = "threw"
         /\ Account_signTypedData(accounts[a], heap, message).outcome = "threw"

\* sendTransaction has just failed on a disposed account
C6_Witness ==
  /\ last.acc \in disposed
  /\ last.op = "sendTransaction"
  /\ last.outcome = "threw"

PublicOps ==
  {"path", "index", "keyPair", "address", "getAddress", "sign", "signTypedData",
   "verify", "getBalance", "getTokenBalance", "quoteSendTransaction",
   "quoteTransfer", "sendTransaction", "transfer"}

\* C7, as stated: after dispose() every public operation on the account fails.
C7_EveryOperationFails ==
  (last.acc \in disposed /\ last.op \in PublicOps) => last.outcome = "threw"

\* C7, amended: after dispose() every public operation on the account fails,
\* except that path and index still return their values and verify resolves
\* false.
C7_OperationsAfterDispose ==
  (last.acc \in disposed /\ last.op \in PublicOps) =>
    IF last.op = "path"
    THEN last.outcome = "returned" /\ last.value = accounts[last.acc].path
    ELSE IF last.op = "index"
    THEN last.outcome = "returned" /\ last.value = Account_index(accounts[last.acc]).value
    ELSE IF last.op = "verify"
    THEN last.outcome = "returned" /\ last.value = FALSE
    ELSE last.outcome = "threw"

\* verify has just resolved on a disposed account
C7_Witness ==
  /\ last.acc \in disposed
  /\ last.op = "verify"
  /\ last.outcome = "returned"

\* C8: dispose() leaves what the path getter returns unchanged, and the getter
\* of a disposed account returns that path without error.
C8_PathSurvivesDispose ==
  [][ /\ \A a \in disposed' :
           /\ Account_path(accounts'[a]) = Account_path(accounts[a])
           /\ Account_path(accounts'[a]).outcome = "returned"
      /\ (last'.op = "path" /\ last'.acc \in disposed) =>
           /\ last'.outcome = "returned"
           /\ last'.value = accounts[last'.acc].path ]_vars

\* the path getter has just returned the full path of a disposed account
C8_Witness ==
  /\ last.op = "path"
  /\ last.acc \in disposed
  /\ last.outcome = "returned"
  /\ last.value = accounts[last.acc].path
  /\ Len(last.value) > Len(BIP_44_TRON_DERIVATION_PATH_PREFIX)

\* C9: when close() has been called on the manager, the seed buffer is all
\* zero, the private-key buffer of every account the manager returned is all
\* zero, and the manager holds no account.
C9_CloseErasesEverything ==
  last.op = "close" =>
    /\ \A i \in 1..Len(heap[SeedRef]) : heap[SeedRef][i] = 0
    /\ \A a \in AccIds : Made(a) => AllZero(heap[Ref(a, "privateKeyBuffer")], KeyLen)
    /\ manager.accounts = <<>>

\* C10: verify resolves true only when the address recovered from the
\* signature over the message is this account's address, and resolves false
\* for a malformed signature.
C10_VerifyComparesAddress ==
  (last.op = "verify" /\ last.outcome = "returned") =>
    /\ last.value = TRUE =>
         /\ verifyMessageV2(last.args.message, last.args.signature).outcome = "returned"
         /\ Account_address(accounts[last.acc], heap).outcome = "returned"
         /\ verifyMessageV2(last.args.message, last.args.signature).value =
              Account_address(accounts[last.acc], heap).value
    /\ last.args.signature.malformed => last.value = FALSE

\* C11: a write by the caller into an array it can reach changes neither the
\* signature any account makes over any message nor the key pair any account
\* reports.
C11_KeyOwnedExclusively ==
  [][ last'.op = "write keyPair.privateKey" =>
        \A a \in AccIds :
          Made(a) =>
            /\ \A message \in Messages :
                 Account_sign(accounts'[a], heap', message) =
                   Account_sign(accounts[a], heap, message)
            /\ Account_keyPair(accounts'[a], heap') = Account_keyPair(accounts[a], heap) ]_vars

(***************************************************************************)
(* fromSeed against its description                                        *)
(***************************************************************************)
\* the argument is a Uint8Array of n elements
IsBytesOfLength(arg, n) == arg.isBytes /\ Len(arg.contents) = n

\* the types and sizes fromSeed requires of its arguments
ArgsAsRequired ==
  /\ fSeed.isBytes
  /\ IsBytesOfLength(fInitial.privateKeyBuffer, KeyLen)
  /\ IsBytesOfLength(fInitial.hmacOutputBuffer, HmacLen)
  /\ IsBytesOfLength(fInitial.derivationDataBuffer, DataLen)
  /\ IsBytesOfLength(fInitial.backupBuffer, KeyLen)

\* m or M, then one or more components after a / each: a non-empty run of
\* digits with at most one ' after it
PathInGrammar(path) ==
  LET parts == Split(path, "/")
  IN /\ Len(parts) >= 2
     /\ parts[1] \in {<<"m">>, <<"M">>}
     /\ \A i \in 2..Len(parts) :
          /\ Digits(parts[i]) # <<>>
          /\ \A j \in 1..Len(Digits(parts[i])) : IsDigit(Digits(parts[i])[j])

\* C12: given a seed that is no Uint8Array, or a privateKeyBuffer, backupBuffer,
\* hmacOutputBuffer or derivationDataBuffer that is no Uint8Array of the
\* required size, fromSeed throws, having run no HMAC and no curve operation
\* and having written to no argument buffer.
C12_ArgumentsCheckedFirst ==
  (fPc \notin {"idle", "called"} /\ ~ArgsAsRequired) =>
    /\ fPc = "threw"
    /\ fError \notin {NULL, "Invalid derivation path", "curve error"}
    /\ fHmacs = 0
    /\ fCurve = 0
    /\ fBuf = fInitial

\* fromSeed has thrown for a backupBuffer of the wrong size, the last argument
\* it checks, with a path it would also refuse
C12_Witness ==
  /\ fPc = "threw"
  /\ fError = "backupBuffer must be a 32-byte Uint8Array"
  /\ fInitial.backupBuffer.isBytes
  /\ ~PathInGrammar(fPath)

\* C13: when fromSeed throws 'Invalid derivation path', no HMAC has been
\* computed and the argument buffers hold the bytes they held before the call.
C13_PathCheckedBeforeWork ==
  fError = "Invalid derivation path" =>
    /\ fHmacs = 0
    /\ fBuf = fInitial

\* C14: fromSeed refuses a path with 'Invalid derivation path' exactly when the
\* path is outside the grammar, and a path outside the grammar never reaches
\* child derivation.
C14_AcceptsExactlyGrammar ==
  (ArgsAsRequired /\ fPc \in {"loop", "returned", "threw"}) =>
    /\ PathInGrammar(fPath) <=> fError # "Invalid derivation path"
    /\ ~PathInGrammar(fPath) => fLog = <<>>

\* C16: a call with a zero-length seed is refused before any key is derived.
C16_EmptySeedRefused ==
  fSeed = Bytes(<<>>) =>
    /\ fPc \notin {"master", "loop", "returned"}
    /\ fHmacs = 0
    /\ fBuf = fInitial

\* C15: a call of derivePrivateKeyBuffer that throws has written to none of the
\* three buffers: they hold what they held when the call began.
C15_NoPartialWrite ==
  (dPc = "threw" /\ ~dReused) =>
    \E v \in {0, ByteBase - 1} :
      dBuf = Buffers(Filled(KeyLen, v), Filled(HmacLen, v), Filled(DataLen, v))

\* the decimal numeral of i: digits, no leading zero, value i
IsDecimalOf(c, i) ==
  /\ c # <<>>
  /\ \A j \in 1..Len(c) : IsDigit(c[j])
  /\ Len(c) > 1 => c[1] # "0"
  /\ DecimalValue(c) = i

AccountPathPrefix == BIP_44_TRON_DERIVATION_PATH_PREFIX \o <<"/", "0", "'", "/", "0", "/">>

\* C17: the account getAccount(i) returns reports the path m/44'/195'/0'/0/i
\* and the index i, the account getAccountByPath(p) returns reports the path
\* m/44'/195'/p, no call changes the path an account reports, and a read of
\* path or index returns the path and the index parsed from it.
C17_PathAndIndexOfAccount ==
  [][ /\ (last'.op = "getAccount" /\ last'.outcome = "returned") =>
           LET path == Account_path(accounts'[last'.acc])
               index == Account_index(accounts'[last'.acc])
           IN /\ path.outcome = "returned"
              /\ SubSeq(path.value, 1, Len(AccountPathPrefix)) = AccountPathPrefix
              /\ IsDecimalOf(SubSeq(path.value, Len(AccountPathPrefix) + 1, Len(path.value)),
                             last'.args)
              /\ index = Returned(Num(last'.args))
      /\ (last'.op = "getAccountByPath" /\ last'.outcome = "returned") =>
           Account_path(accounts'[last'.acc]) =
             Returned(BIP_44_TRON_DERIVATION_PATH_PREFIX \o <<"/">> \o last'.args)
      /\ \A a \in AccIds : Made(a) => Account_path(accounts'[a]) = Account_path(accounts[a])
      /\ last'.op = "path" =>
           (last'.outcome = "returned" /\ last'.value = accounts[last'.acc].path)
      /\ last'.op = "index" =>
           (last'.outcome = "returned"
            /\ last'.value = Account_index(accounts[last'.acc]).value) ]_vars

\* the index getter has just returned 12 on an account that getAccount(12)
\* returned
C17_Witness ==
  /\ last.op = "index"
  /\ last.outcome = "returned"
  /\ last.value = Num(12)
  /\ accounts[last.acc].path = AccountPathPrefix \o <<"1", "2">>

\* C18: an account's address is computed once and cached for the lifetime of
\* its key: a change of the bytes of the private-key buffer between two reads
\* leaves what address and getAddress() return unchanged.
C18_AddressCached ==
  [][last'.op = "write keyPair.privateKey" =>
       \A a \in AccIds :
         (Made(a) /\ a \notin disposed) =>
           /\ Account_address(accounts'[a], heap') = Account_address(accounts[a], heap)
           /\ Account_getAddress(accounts'[a], heap')
                = Account_getAddress(accounts[a], heap)]_vars

\* the number a string of hex digits writes, -1 for any other string
HexDigitValue(c) == IF \E i \in 1..16 : HexChars[i] = c
                    THEN (CHOOSE i \in 1..16 : HexChars[i] = c) - 1 ELSE -1

RECURSIVE HexValue(_)
HexValue(s) ==
  IF s = <<>> THEN 0
  ELSE LET front == HexValue(SubSeq(s, 1, Len(s) - 1))
           d == HexDigitValue(s[Len(s)])
       IN IF front < 0 \/ d < 0 THEN -1 ELSE 16 * front + d

\* the signature the provider gave for the call the state records
ProviderSignature == secp256k1_sign(sDigest, sKey.contents).value

SignedSomething == sPc = "signed" /\ sSigned.outcome = "returned"

\* the layout alone: '0x', HexLen digits of r, HexLen digits of s, two more
SignatureLayout ==
  SignedSomething =>
    LET t == sSigned.value
    IN /\ Len(t) = 2 + HexLen + HexLen + 2
       /\ SubSeq(t, 1, 2) = <<"0", "x">>
       /\ HexValue(SubSeq(t, 3, 2 + HexLen)) = ProviderSignature.r
       /\ HexValue(SubSeq(t, 3 + HexLen, 2 + 2 * HexLen)) = ProviderSignature.s
       /\ SubSeq(t, 3 + 2 * HexLen, Len(t)) \in {<<"1", "b">>, <<"1", "c">>}

\* C19: sign returns '0x', the hex digits of r, the hex digits of s and a
\* marker, and the marker is '1b' when the parity of the provider's recovery
\* id is 0 and '1c' when it is 1, for every recovery id the provider returns.
C19_MarkerIsParity ==
  /\ SignatureLayout
  /\ SignedSomething =>
       LET t == sSigned.value
       IN SubSeq(t, Len(t) - 1, Len(t))
            = IF ProviderSignature.recovery % 2 = 0 THEN <<"1", "b">> ELSE <<"1", "c">>

\* the key an account of this path derives from a seed, in fresh buffers
KeyDerivedFrom(seed, fullPath) ==
  derivePrivateKeyBuffer(seed, Buffers(Zeros(KeyLen), Zeros(HmacLen), Zeros(DataLen)),
                         fullPath).b.privateKeyBuffer

\* C20: the seed is not retained by an account: once an account is
\* constructed, overwriting the seed buffer with zeros leaves the bytes of its
\* private key unchanged, and sign(message) returns what it returned before.
C20_SeedNotRetained ==
  [][last'.op = "sodium_memzero(seedBuffer)" =>
       \A a \in AccIds :
         Made(a) =>
           /\ accounts'[a] = accounts[a]
           /\ accounts[a].privateKeyBuffer # NullRef =>
                heap'[accounts[a].privateKeyBuffer] = heap[accounts[a].privateKeyBuffer]
           /\ \A message \in Messages :
                Account_sign(accounts'[a], heap', message)
                  = Account_sign(accounts[a], heap, message)]_vars

\* an account made from the seed signs after the seed buffer was zeroed: its
\* key is still the one derived from the seed, not the one zeros derive
C20_Witness ==
  /\ last.op = "sign"
  /\ last.outcome = "returned"
  /\ heap[SeedRef] # <<>>
  /\ AllZero(heap[SeedRef], Len(heap[SeedRef]))
  /\ \E seed \in LifeSeeds :
       /\ ~AllZero(seed, Len(seed))
       /\ heap[accounts[last.acc].privateKeyBuffer]
            = KeyDerivedFrom(seed, accounts[last.acc].path)
       /\ KeyDerivedFrom(seed, accounts[last.acc].path)
            # KeyDerivedFrom(Zeros(Len(seed)), accounts[last.acc].path)
       /\ \E message \in Messages :
            last.value = SigningKey_sign(KeyDerivedFrom(seed, accounts[last.acc].path),
                                         hashMessage(message)).value

SendSteps == <<"build", "fee", "sign", "broadcast">>

\* the stage a sendTransaction call stopped in, by the network's answers
StageFailed(net, stage) ==
  \/ stage = "build" /\ net.build = "fail"
  \/ stage = "fee" /\ net.resources = "fail"
  \/ stage = "broadcast" /\ net.broadcast # "accepted"

\* C21: sendTransaction runs build, fee estimate, sign, broadcast in this
\* order; a failure at a step rejects with 'Failed to send transaction:' and no
\* later step runs; nothing is broadcast unless signing succeeded; it resolves
\* with {hash, fee} only when the broadcast answer exists and reports true.
C21_SendInOrder ==
  (last.op = "sendTransaction" /\ last.steps # <<>>) =>
    /\ \E n \in 1..Len(SendSteps) : last.steps = SubSeq(SendSteps, 1, n)
    /\ \A i \in 1..Len(last.steps) :
         i < Len(last.steps) => ~StageFailed(last.args, last.steps[i])
    /\ last.outcome = "threw" =>
         /\ last.value = "Failed to send transaction"
         /\ (last.steps # SendSteps \/ last.args.broadcast # "accepted")
    /\ (\E i \in 1..Len(last.steps) : last.steps[i] = "broadcast") =>
         signTransaction(accounts[last.acc], heap, TxId).outcome = "returned"
    /\ last.outcome = "returned" =>
         /\ last.steps = SendSteps
         /\ last.args.broadcast = "accepted"
         /\ last.value.hash = TxId
         /\ last.value.fee = calculateTransactionCost(accounts[last.acc], heap, last.args).value

\* the network answers the broadcast with nothing: every step ran, the call
\* rejected
C21_Witness ==
  /\ last.op = "sendTransaction"
  /\ last.args.broadcast = "empty"
  /\ last.steps = SendSteps
  /\ last.outcome = "threw"
  /\ last.value = "Failed to send transaction"

\* the indices of the call's path have been parsed
FromSeedParsed == fPc \in {"loop", "returned"} \/ (fPc = "threw" /\ fIndices # <<>>)

\* component i's index is an integer of the range its marking declares
IndexInDeclaredRange(c, index) ==
  /\ ~index.nan
  /\ IF MarkedHardened(c)
     THEN index.v >= HARDENED_OFFSET /\ index.v < IndexMod
     ELSE index.v >= 0 /\ index.v < HARDENED_OFFSET

\* C22: every index fromSeed's path parsing hands to child derivation is an
\* integer in [0, 2^32), below 2^31 for an unhardened component and in
\* [2^31, 2^32) for a hardened one, so an unhardened component is never
\* derived through the hardened branch.
C22_IndicesIn32Bits ==
  FromSeedParsed =>
    \A i \in 1..Len(fIndices) :
      /\ IndexInDeclaredRange(Components(ToLowerCase(fPath))[i], fIndices[i])
      /\ IsHardenedIndex(fIndices[i]) = MarkedHardened(Components(ToLowerCase(fPath))[i])

\* the three buffers an account holds
OwnedBuffers(ac) ==
  {ac.privateKeyBuffer, ac.hmacOutputBuffer, ac.derivationDataBuffer} \ {NullRef}

\* C23: two accounts own pairwise disjoint private-key, HMAC and derivation
\* buffers: constructing another account, or disposing one, leaves every other
\* account's private-key bytes and sign results unchanged.
C23_AccountsDisjoint ==
  [][/\ \A a \in AccIds, b \in AccIds :
          (a # b /\ Made(a) /\ Made(b)) =>
            /\ OwnedBuffers(accounts[a]) \cap OwnedBuffers(accounts[b]) = {}
            /\ SeedRef \notin OwnedBuffers(accounts[a])
     /\ last'.op \in {"getAccount", "getAccountByPath", "dispose"} =>
          \A b \in AccIds :
            (Made(b) /\ b # last'.acc) =>
              /\ accounts'[b] = accounts[b]
              /\ accounts[b].privateKeyBuffer # NullRef =>
                   heap'[accounts[b].privateKeyBuffer] = heap[accounts[b].privateKeyBuffer]
              /\ \A message \in Messages :
                   Account_sign(accounts'[b], heap', message)
                     = Account_sign(accounts[b], heap, message)]_vars

\* one account has just been disposed while another, derived from the seed,
\* still holds its key
C23_Witness ==
  /\ last.op = "dispose"
  /\ last.outcome = "returned"
  /\ \E b \in AccIds, seed \in LifeSeeds :
       /\ b # last.acc
       /\ Made(b)
       /\ b \notin disposed
       /\ ~AllZero(heap[accounts[b].privateKeyBuffer], KeyLen)
       /\ heap[accounts[b].privateKeyBuffer] = KeyDerivedFrom(seed, accounts[b].path)
       /\ Account_sign(accounts[b], heap, VerifiedMessage).outcome = "returned"

\* a logged step that ran its HMAC and found IL >= n
StepWithLargeIL(entry) ==
  entry.outcome # "threw" /\ BytesToInt(entry.IL) >= CurveOrder

\* C24: a derivePrivateKeyBuffer step whose IL is >= n is a no-op: the private
\* key and the chain code that keys the next step's HMAC are what they were
\* before the step.
C24_LargeILIsNoOp ==
  \A i \in 1..Len(dLog) :
    StepWithLargeIL(dLog[i]) =>
      /\ dLog[i].keyOut = dLog[i].keyIn
      /\ dLog[i].chainOut = dLog[i].chainIn

\* a logged step whose IL is below n and whose sum with the key is 0 mod n
StepWithZeroSum(entry) ==
  /\ entry.outcome # "threw"
  /\ BytesToInt(entry.IL) < CurveOrder
  /\ (BytesToInt(entry.keyIn) + BytesToInt(entry.IL)) % CurveOrder = 0

\* C25: a derivePrivateKeyBuffer step in which (key + IL) mod n is zero is a
\* no-op: the private key and the chain code are what they were before the
\* step, so the private-key buffer does not hold zero after it.
C25_ZeroSumIsNoOp ==
  \A i \in 1..Len(dLog) :
    StepWithZeroSum(dLog[i]) =>
      /\ dLog[i].keyOut = dLog[i].keyIn
      /\ dLog[i].chainOut = dLog[i].chainIn
      /\ (~isBufferZero(dLog[i].keyIn) => ~isBufferZero(dLog[i].keyOut))

\* the HMAC output of a logged step, from the chain code and input it logged
StepHmac(entry) == hmac(entry.chainIn, entry.data)

\* a logged step that is not skipped and starts from a key in [1, n-1]
StepNotSkipped(entry) ==
  /\ entry.outcome # "threw"
  /\ ValidPrivateKey(entry.keyIn)
  /\ BytesToInt(Subarray(StepHmac(entry), 0, KeyLen)) < CurveOrder
  /\ (BytesToInt(entry.keyIn) + BytesToInt(Subarray(StepHmac(entry), 0, KeyLen)))
       % CurveOrder # 0

\* C26: in a step that is not skipped, starting from a key in [1, n-1], the
\* private key after the step is (key + IL) mod n exactly, also when the
\* addition carries out of the top byte, and the chain code after the step is
\* IR, the right half of the step's HMAC output.
C26_StepAddsModuloN ==
  \A i \in 1..Len(dLog) :
    StepNotSkipped(dLog[i]) =>
      /\ dLog[i].outcome = "derived"
      /\ BytesToInt(dLog[i].keyOut)
           = (BytesToInt(dLog[i].keyIn)
                + BytesToInt(Subarray(StepHmac(dLog[i]), 0, KeyLen))) % CurveOrder
      /\ Len(dLog[i].keyOut) = KeyLen
      /\ dLog[i].chainOut = Subarray(StepHmac(dLog[i]), KeyLen, HmacLen)

\* a step that is not skipped and whose addition carried out of the top byte
C26_Witness ==
  \E i \in 1..Len(dLog) :
    /\ StepNotSkipped(dLog[i])
    /\ dLog[i].outcome = "derived"
    /\ BytesToInt(dLog[i].keyIn) + BytesToInt(dLog[i].IL) >= KeyMod
    /\ ValidPrivateKey(dLog[i].keyOut)

\* the number the first KeyLen bytes of the addition write
AddedValue == BytesToInt(Subarray(kIn.addition, 0, KeyLen))

\* C27: addPrivateKeys(target, addition) replaces the bytes of target by the
\* big-endian encoding of (target + addition[0..31]) mod 2^256, returns true
\* exactly when the sum is >= 2^256, and leaves addition unchanged.
C27_AddWithCarry ==
  kPc = "returned" =>
    /\ Len(kOut.target) = KeyLen
    /\ \A i \in 1..KeyLen : kOut.target[i] \in 0..(ByteBase - 1)
    /\ BytesToInt(kOut.target) = (BytesToInt(kIn.target) + AddedValue) % KeyMod
    /\ kOut.overflow = (BytesToInt(kIn.target) + AddedValue >= KeyMod)
    /\ kOut.addition = kIn.addition

\* an addition with a carry between bytes and out of the top byte
C27_Witness ==
  /\ kPc = "returned"
  /\ kOut.overflow
  /\ kIn.target[KeyLen] + kIn.addition[KeyLen] >= ByteBase
  /\ BytesToInt(kOut.target) = BytesToInt(kIn.target) + AddedValue - KeyMod

\* C28: fromSeed skips a step if and only if IL >= n, IL equal to n included,
\* and subtracts n if and only if the addition overflowed or the sum is >= n,
\* a sum equal to n included, so the private-key buffer holds no value >= n
\* after a step that started below n.
C28_SkipAndReduceAsSpecified ==
  \A i \in 1..Len(fLog) :
    fLog[i].outcome # "threw" =>
      /\ (fLog[i].outcome = "skipIL") = (BytesToInt(fLog[i].IL) >= CurveOrder)
      /\ BytesToInt(fLog[i].keyIn) < CurveOrder => BytesToInt(fLog[i].keyOut) < CurveOrder

\* what derivePrivateKeyBuffer leaves in fresh buffers for the call's seed and path
DerivedByUtils ==
  derivePrivateKeyBuffer(fSeed.contents,
                         Buffers(Zeros(KeyLen), Zeros(HmacLen), Zeros(DataLen)), fPath)

\* C29: the two derivations agree: for every seed and every path fromSeed
\* accepts, derivePrivateKeyBuffer and fromSeed leave the same bytes in
\* privateKeyBuffer.
C29_DerivationsAgree ==
  fPc = "returned" =>
    /\ ~DerivedByUtils.threw
    /\ DerivedByUtils.b.privateKeyBuffer = fBuf.privateKeyBuffer.contents

\* C30: close() completes its cleanup in every order of calls: when the caller
\* has disposed one of the manager's accounts before, a later close() still
\* returns, zeroes the seed buffer and leaves no account open.
C30_CloseAfterDispose ==
  (last.op = "close" /\ disposed # {}) =>
    /\ last.outcome = "returned"
    /\ AllZero(heap[SeedRef], Len(heap[SeedRef]))
    /\ manager.accounts = <<>>
    /\ manager.seedBuffer = NullRef
    /\ \A a \in AccIds :
         Made(a) => /\ accounts[a].privateKeyBuffer = NullRef
                    /\ AllZero(heap[Ref(a, "privateKeyBuffer")], KeyLen)

====
